---------------------------- MODULE Spec2Model ----------------------------
(***************************************************************************)
(* Model of the two reporting scripts of SaneProcess:                      *)
(*   scripts/automation/ls-sales.py   (orders pipeline)                    *)
(*   scripts/automation/dl-report.py  (download statistics pipeline)       *)
(*                                                                         *)
(* Time.  An instant is an integer number of ticks (UTC); a calendar day   *)
(* is TicksPerDay ticks.  A date string "YYYY-MM-DD" is modelled by the    *)
(* number of the day it names, a created_at string by the instant it       *)
(* denotes.  Money.  subtotal_usd is an integer number of cents; a dollar  *)
(* amount is modelled exactly, in units of 1/100000 dollar (Units), so     *)
(* that 5% and 1.5% of a whole number of cents are integers.  The binary   *)
(* rounding of Python floats is not modelled.                              *)
(***************************************************************************)
EXTENDS Integers, Sequences, FiniteSets, TLC

VARIABLES
    pc,          \* position of the run
    args,        \* parsed command line
    now,         \* the instant datetime.now() returns during the run
    tz,          \* UTC offset of the caller's local zone, in ticks
    server,      \* what the remote API answers: one response per page
    data,        \* dl-report main: the parsed response of the stats API
    page,        \* fetch_orders: page number of the next request
    requested,   \* fetch_orders: page numbers requested so far, in order
    all_orders,  \* fetch_orders: records accumulated / main: all orders
    filtered,    \* filter_orders: the orders retained so far
    cur,         \* the record the last loop iteration processed
    n,           \* number of loop iterations done by the running function
    buckets,     \* aggregation dictionary of the running view
    stdout,      \* what the run printed to standard output
    stderr,      \* what the run printed to the error stream
    exit_code    \* process exit status once pc = "exit" (-1 before)

vars == <<pc, args, now, tz, server, data, page, requested, all_orders, filtered,
          cur, n, buckets, stdout, stderr, exit_code>>

---------------------------------------------------------------------------
(* Bounds of the model *)

TicksPerDay == 2
MaxPages == 2
MaxDaysArg == 2
MaxRecords == 2
MaxKeys == 25

(* Program constants *)

PAGE_SIZE == 50
SALES_WEEK_DAYS == 7
DL_WEEK_RANGE == 7
TOP_N == 20
RECENT_N == 5
DL_DEFAULT_DAYS == 90

---------------------------------------------------------------------------
(* JSON values: a missing key and a null are told apart from any string *)

ABSENT == "<absent>"
NULL == "<null>"

(* Python truthiness of a JSON string value: None and "" are falsy *)
Falsy(v) == v \in {ABSENT, NULL, ""}

(* str(v) inside an f-string *)
Str(v) == IF v = NULL THEN "None" ELSE v

(* dict.get(key, default): the default only replaces a missing key *)
Get(v, default) == IF v = ABSENT THEN default ELSE v

---------------------------------------------------------------------------
(* Calendar *)

Day == TicksPerDay

(* strftime("%Y-%m-%d") of an instant, and created_at[:10]: its UTC day *)
DateOf(t) == t \div TicksPerDay

(* The horizon of the model: days 0 .. LastDay.  Day Today is the UTC day
   of runs that start "today"; it is the first day of a calendar month and
   the month before it has 31 days. *)
Today == SALES_WEEK_DAYS + 1
LastDay == Today + 1
Days == 0..LastDay
Instants == 0..(LastDay * TicksPerDay + TicksPerDay - 1)

(* day-of-month (1-based) of a UTC day of the horizon *)
DayOfMonth(d) == IF d >= Today THEN d - Today + 1 ELSE 31 - (Today - 1 - d)

(* created_at[:7]: the calendar month a UTC day lies in (months are numbered
   in calendar order, so that sorting the keys sorts the months) *)
MonthOf(d) == IF d >= Today THEN 1 ELSE 0

(* now.replace(day=1, hour=0, minute=0, second=0, microsecond=0) *)
MonthStart(t) == (DateOf(t) - (DayOfMonth(DateOf(t)) - 1)) * TicksPerDay

(* now.replace(hour=0, ...) on datetime.now().astimezone(): local midnight
   of the caller's zone, as a UTC instant *)
LocalMidnight(t, off) == ((t + off) \div TicksPerDay) * TicksPerDay - off

---------------------------------------------------------------------------
(* Ordered dictionaries (dict / defaultdict): insertion order and values *)

EmptyDict == [keys |-> <<>>, val |-> <<>>]

Has(d, k) == k \in DOMAIN d.val

(* d[k] of a defaultdict whose factory returns zero *)
Lookup(d, k, zero) == IF Has(d, k) THEN d.val[k] ELSE zero

(* d[k] = v, the key created on its first assignment *)
Put(d, k, v) ==
    IF Has(d, k)
    THEN [d EXCEPT !.val = [@ EXCEPT ![k] = v]]
    ELSE [keys |-> Append(d.keys, k), val |-> (k :> v) @@ d.val]

(* y, once x has its value: TLC evaluates the arguments of an operator only
   when they are used, and a loop would otherwise be unfolded in one go.
   A loop over os runs its body on each element in order: the recursion
   runs the first half, then the second half on the result. *)
Evaluated(x, y) == IF x = x THEN y ELSE y

(* sum(...): the recursion halves the sequence, the sum is the same *)
RECURSIVE SumSeq(_)
SumSeq(s) ==
    IF s = <<>> THEN 0
    ELSE IF Len(s) = 1 THEN s[1]
    ELSE LET h == Len(s) \div 2
         IN  SumSeq(SubSeq(s, 1, h)) + SumSeq(SubSeq(s, h + 1, Len(s)))

---------------------------------------------------------------------------
(* ls-sales.py: fee calculator *)

(* a.get("subtotal_usd", 0) / 100: cents to dollars, in units of 1/100000 $.
   An amount of whole cents is a multiple of 1000 units, so that 5% of it
   (a twentieth) and 1.5% of it (three two-hundredths) are whole units. *)
Dollars(cents) == cents * 1000

calc_fee_intl_always(subtotal, currency) ==
    LET base == subtotal \div 20 + 50000
        intl == (subtotal \div 200) * 3
    IN  <<base + intl, intl>>

calc_fee(subtotal, currency) ==
    LET base == subtotal \div 20 + 50000
        intl == IF currency # "USD" THEN (subtotal \div 200) * 3 ELSE 0
    IN  <<base + intl, intl>>

Subtotal(a) == Dollars(a.subtotal_usd)
Fee(a) == calc_fee(Subtotal(a), Get(a.currency, "USD"))[1]
Intl(a) == calc_fee(Subtotal(a), Get(a.currency, "USD"))[2]

---------------------------------------------------------------------------
(* ls-sales.py: filter_orders *)

(* "if args.days": None and 0 are both falsy *)
DaysTruthy(a) == a.days_given /\ a.days # 0

HasCutoff(a) == a.month \/ DaysTruthy(a)

Cutoff(a, t) == IF a.month THEN MonthStart(t) ELSE t - a.days * Day

Retained_created_after_cutoff(o, a, t) ==
    /\ o.status = "paid"
    /\ (HasCutoff(a) => o.created > Cutoff(a, t))

(* one iteration of the loop: whether order o is appended to filtered *)
Retained(o, a, t) ==
    /\ o.status = "paid"
    /\ (HasCutoff(a) => ~(o.created < Cutoff(a, t)))

(* the loop: the orders retained, in their order *)
filter_orders(os, a, t) == SelectSeq(os, LAMBDA o : Retained(o, a, t))

---------------------------------------------------------------------------
(* sorted(keys, key=rank, reverse=True): stable, descending by rank *)

(* r[j] is the rank of s[j].  The place element j takes: after every
   element of higher rank and after the earlier elements of equal rank *)
PlaceDesc(r, j) ==
    Cardinality({k \in DOMAIN r : r[k] > r[j] \/ (k < j /\ r[k] = r[j])}) + 1

SortedDesc(s, r) ==
    LET place == [j \in DOMAIN s |-> PlaceDesc(r, j)]
        from == [p \in DOMAIN s |-> CHOOSE j \in DOMAIN s : place[j] = p]
    IN  [p \in DOMAIN s |-> s[from[p]]]

(* sorted(keys): ascending; the keys of a dictionary are distinct *)
SortedAsc(s) ==
    LET place == [j \in DOMAIN s |-> Cardinality({k \in DOMAIN s : s[k] < s[j]}) + 1]
        from == [p \in DOMAIN s |-> CHOOSE j \in DOMAIN s : place[j] = p]
    IN  [p \in DOMAIN s |-> s[from[p]]]

(* s[:k] *)
Take(s, k) == SubSeq(s, 1, IF Len(s) < k THEN Len(s) ELSE k)

Range(s) == {s[j] : j \in DOMAIN s}

---------------------------------------------------------------------------
(* ls-sales.py: dimension keys of an order *)

(* a.get("first_order_item") or {} *)
EmptyItem == [json |-> "object", product_name |-> ABSENT, variant_name |-> ABSENT]

ItemOf(a) ==
    IF a.first_order_item.json = "object" THEN a.first_order_item ELSE EmptyItem

(* item.get("product_name", "Unknown") *)
ProductName(a) == Get(ItemOf(a).product_name, "Unknown")

(* item.get("variant_name") or "Default" *)
VariantName(a) ==
    IF Falsy(ItemOf(a).variant_name) THEN "Default" ELSE ItemOf(a).variant_name

(* f"{product} | {variant}" *)
VariantKey(a) == Str(ProductName(a)) \o " | " \o VariantName(a)

---------------------------------------------------------------------------
(* ls-sales.py: print_monthly *)

ZeroMonthly == [revenue |-> 0, orders |-> 0, fees |-> 0, tax |-> 0, net |-> 0]

MonthlyBody(d, o) ==
    LET month == MonthOf(DateOf(o.created))
        m == Lookup(d, month, ZeroMonthly)
    IN  Put(d, month, [revenue |-> m.revenue + Subtotal(o),
                       orders  |-> m.orders + 1,
                       fees    |-> m.fees + Fee(o),
                       tax     |-> m.tax + Dollars(o.tax_usd),
                       net     |-> m.net + (Subtotal(o) - Fee(o))])

RECURSIVE MonthlyLoop(_, _)
MonthlyLoop(d, os) ==
    IF os = <<>> THEN d
    ELSE IF Len(os) = 1 THEN MonthlyBody(d, os[1])
    ELSE LET h == Len(os) \div 2
             left == MonthlyLoop(d, SubSeq(os, 1, h))
         IN  Evaluated(left, MonthlyLoop(left, SubSeq(os, h + 1, Len(os))))

MonthlyTotals(d) ==
    [k \in {"revenue", "orders", "fees", "tax", "net"} |->
        SumSeq([j \in DOMAIN d.keys |-> d.val[d.keys[j]][k]])]

(* the table: one row per month in ascending order, then the TOTAL row *)
MonthlyOutput(d) ==
    LET months == SortedAsc(d.keys)
    IN  [lines |-> [j \in DOMAIN months |->
                      [view |-> "monthly", label |-> months[j], row |-> d.val[months[j]]]]
                   \o <<[view |-> "monthly", label |-> "TOTAL", row |-> MonthlyTotals(d)]>>,
         crashed |-> FALSE]

---------------------------------------------------------------------------
(* ls-sales.py: print_fees *)

ZeroFees == [total_revenue |-> 0, total_intl |-> 0, paid_count |-> 0]

FeesBody(f, o) ==
    [total_revenue |-> f.total_revenue + Subtotal(o),
     total_intl    |-> f.total_intl + Intl(o),
     paid_count    |-> f.paid_count + 1]

RECURSIVE FeesLoop(_, _)
FeesLoop(d, os) ==
    IF os = <<>> THEN d
    ELSE IF Len(os) = 1 THEN FeesBody(d, os[1])
    ELSE LET h == Len(os) \div 2
             left == FeesLoop(d, SubSeq(os, 1, h))
         IN  Evaluated(left, FeesLoop(left, SubSeq(os, h + 1, Len(os))))

FeesOutput(f) ==
    LET platform_pct == f.total_revenue \div 20
        flat_fee == f.paid_count * 50000
        total_fees == platform_pct + flat_fee + f.total_intl
    IN  [lines |-> <<[view |-> "fees", label |-> "Fee Breakdown",
                      row |-> [platform_pct |-> platform_pct, flat_fee |-> flat_fee,
                               total_intl |-> f.total_intl, total_fees |-> total_fees,
                               total_revenue |-> f.total_revenue,
                               keep |-> f.total_revenue - total_fees]]>>,
         crashed |-> FALSE]

---------------------------------------------------------------------------
(* ls-sales.py: print_products and print_product_variants *)

ZeroProduct == [revenue |-> 0, orders |-> 0, fees |-> 0]

AddOrder(d, key, o) ==
    LET p == Lookup(d, key, ZeroProduct)
    IN  Put(d, key, [revenue |-> p.revenue + Subtotal(o),
                     orders  |-> p.orders + 1,
                     fees    |-> p.fees + Fee(o)])

ProductsBody(d, o) == AddOrder(d, ProductName(o), o)

VariantsBody(d, o) == AddOrder(d, VariantKey(o), o)

RECURSIVE ProductsLoop(_, _)
ProductsLoop(d, os) ==
    IF os = <<>> THEN d
    ELSE IF Len(os) = 1 THEN ProductsBody(d, os[1])
    ELSE LET h == Len(os) \div 2
             left == ProductsLoop(d, SubSeq(os, 1, h))
         IN  Evaluated(left, ProductsLoop(left, SubSeq(os, h + 1, Len(os))))

RECURSIVE VariantsLoop(_, _)
VariantsLoop(d, os) ==
    IF os = <<>> THEN d
    ELSE IF Len(os) = 1 THEN VariantsBody(d, os[1])
    ELSE LET h == Len(os) \div 2
             left == VariantsLoop(d, SubSeq(os, 1, h))
         IN  Evaluated(left, VariantsLoop(left, SubSeq(os, h + 1, Len(os))))

ByRevenue(d) == SortedDesc(d.keys, [j \in DOMAIN d.keys |-> d.val[d.keys[j]].revenue])

ProductRow(v, d, k) ==
    [view |-> v, label |-> k,
     row |-> [orders |-> d.val[k].orders, revenue |-> d.val[k].revenue,
              fees |-> d.val[k].fees, net |-> d.val[k].revenue - d.val[k].fees]]

(* rows by revenue, descending.  name[:29] raises TypeError on a None key:
   the rows before it are printed, then the run dies. *)
RECURSIVE ProductLines(_, _)
ProductLines(d, ks) ==
    IF ks = <<>> THEN [lines |-> <<>>, crashed |-> FALSE]
    ELSE IF Head(ks) = NULL THEN [lines |-> <<>>, crashed |-> TRUE]
    ELSE LET rest == ProductLines(d, Tail(ks))
         IN  [lines |-> <<ProductRow("products", d, Head(ks))>> \o rest.lines,
              crashed |-> rest.crashed]

ProductsOutput(d) == ProductLines(d, ByRevenue(d))

(* the keys of print_product_variants are formatted strings, never None *)
VariantsOutput(d) ==
    LET ks == ByRevenue(d)
    IN  [lines |-> [j \in DOMAIN ks |-> ProductRow("product-variants", d, ks[j])],
         crashed |-> FALSE]

---------------------------------------------------------------------------
(* ls-sales.py: print_daily *)

ZeroSales == [orders |-> 0, revenue |-> 0, fees |-> 0]

SalesPeriods == <<"Today", "Yesterday", "This Week", "All Time">>

SalesBuckets0 == [name \in Range(SalesPeriods) |-> ZeroSales]

today_start(t, off) == LocalMidnight(t, off)
yesterday_start(t, off) == today_start(t, off) - Day
week_start(t, off) == today_start(t, off) - SALES_WEEK_DAYS * Day

AddSale(m, o) ==
    [orders |-> m.orders + 1, revenue |-> m.revenue + Subtotal(o),
     fees |-> m.fees + Fee(o)]

(* the windows one paid order is added to *)
SalesWindows(o, t, off) ==
    {"All Time"}
    \cup (IF o.created >= week_start(t, off) THEN {"This Week"} ELSE {})
    \cup (IF o.created >= today_start(t, off) THEN {"Today"}
          ELSE IF o.created >= yesterday_start(t, off) THEN {"Yesterday"}
          ELSE {})

(* one iteration of the loop over all_orders *)
SalesDailyBody(b, o, t, off) ==
    IF o.status # "paid" THEN b
    ELSE [name \in DOMAIN b |->
            IF name \in SalesWindows(o, t, off) THEN AddSale(b[name], o) ELSE b[name]]

RECURSIVE SalesDailyLoop(_, _, _, _)
SalesDailyLoop(d, os, t, off) ==
    IF os = <<>> THEN d
    ELSE IF Len(os) = 1 THEN SalesDailyBody(d, os[1], t, off)
    ELSE LET h == Len(os) \div 2
             left == SalesDailyLoop(d, SubSeq(os, 1, h), t, off)
         IN  Evaluated(left, SalesDailyLoop(left, SubSeq(os, h + 1, Len(os)), t, off))

(* [o for o in all_orders if o["attributes"].get("status") == "paid"] *)
PaidOnly(os) == SelectSeq(os, LAMBDA o : o.status = "paid")

(* the five most recent paid orders, newest first *)
Recent(os) ==
    LET paid == PaidOnly(os)
    IN  Take(SortedDesc(paid, [j \in DOMAIN paid |-> paid[j].created]), RECENT_N)

SalesRow(b, name) ==
    [view |-> "daily", label |-> name,
     row |-> [orders |-> b[name].orders, revenue |-> b[name].revenue,
              fees |-> b[name].fees, net |-> b[name].revenue - b[name].fees]]

RecentRow(o) ==
    [view |-> "recent", label |-> Str(ProductName(o)),
     row |-> [date |-> DateOf(o.created), subtotal |-> Subtotal(o)]]

(* the table of the four periods, then the recent orders *)
SalesDailyOutput(b, os) ==
    LET recent == Recent(os)
    IN  [lines |-> [j \in DOMAIN SalesPeriods |-> SalesRow(b, SalesPeriods[j])]
                   \o [j \in DOMAIN recent |-> RecentRow(recent[j])],
         crashed |-> FALSE]

---------------------------------------------------------------------------
(* ls-sales.py: print_json *)

(* round(x, 2): to whole cents (1000 units), nearest, ties to even.  Python
   decides a decimal tie by the binary value of the float; the amounts of
   this model have no ties. *)
Round2(x) ==
    LET q == x \div 1000
        r == x % 1000
    IN  IF r < 500 THEN q * 1000
        ELSE IF r > 500 THEN (q + 1) * 1000
        ELSE IF q % 2 = 0 THEN q * 1000 ELSE (q + 1) * 1000

JsonBody(result, o) ==
    Append(result,
           [date     |-> DateOf(o.created),
            product  |-> ProductName(o),
            subtotal |-> Subtotal(o),
            tax      |-> Dollars(o.tax_usd),
            fee      |-> Round2(Fee(o)),
            net      |-> Round2(Subtotal(o) - Fee(o)),
            currency |-> Get(o.currency, "USD")])

RECURSIVE JsonLoop(_, _)
JsonLoop(d, os) ==
    IF os = <<>> THEN d
    ELSE IF Len(os) = 1 THEN JsonBody(d, os[1])
    ELSE LET h == Len(os) \div 2
             left == JsonLoop(d, SubSeq(os, 1, h))
         IN  Evaluated(left, JsonLoop(left, SubSeq(os, h + 1, Len(os))))

JsonOutput(result) ==
    [lines |-> <<[view |-> "json", label |-> "json", row |-> result]>>,
     crashed |-> FALSE]

---------------------------------------------------------------------------
(* dl-report.py: windowed views print_daily and print_events *)

(* d[k] += c on a defaultdict(int) *)
Inc(d, k, c) == Put(d, k, Lookup(d, k, 0) + c)

(* the fourth bucket is labelled f"Last {window_days}d" *)
DlPeriods == <<"Today", "Yesterday", "This Week", "Window">>

DlBuckets0 == [name \in Range(DlPeriods) |-> EmptyDict]

today(t) == DateOf(t)
yesterday(t) == DateOf(t - Day)
week_dates_from_yesterday(t) == {DateOf(t - j * Day) : j \in 1..DL_WEEK_RANGE}

week_dates(t) == {DateOf(t - j * Day) : j \in 0..(DL_WEEK_RANGE - 1)}

DlWindows_exclusive(date, t) ==
    IF date = today(t) THEN {"Window", "Today"}
    ELSE IF date = yesterday(t) THEN {"Window", "Yesterday"}
    ELSE {"Window"} \cup (IF date \in week_dates(t) THEN {"This Week"} ELSE {})

(* the windows one record is added to *)
DlWindows(date, t) ==
    {"Window"}
    \cup (IF date \in week_dates(t) THEN {"This Week"} ELSE {})
    \cup (IF date = today(t) THEN {"Today"}
          ELSE IF date = yesterday(t) THEN {"Yesterday"}
          ELSE {})

(* one iteration of print_daily's loop over rows *)
DlDailyBody(b, r, t) ==
    [name \in DOMAIN b |->
        IF name \in DlWindows(r.date, t)
        THEN Inc(Inc(b[name], r.source, r.count), "total", r.count)
        ELSE b[name]]

RECURSIVE DlDailyLoop(_, _, _)
DlDailyLoop(d, os, t) ==
    IF os = <<>> THEN d
    ELSE IF Len(os) = 1 THEN DlDailyBody(d, os[1], t)
    ELSE LET h == Len(os) \div 2
             left == DlDailyLoop(d, SubSeq(os, 1, h), t)
         IN  Evaluated(left, DlDailyLoop(left, SubSeq(os, h + 1, Len(os)), t))

SourceRow(d) ==
    [total |-> Lookup(d, "total", 0), sparkle |-> Lookup(d, "sparkle", 0),
     homebrew |-> Lookup(d, "homebrew", 0), website |-> Lookup(d, "website", 0),
     unknown |-> Lookup(d, "unknown", 0)]

DlDailyOutput(b) ==
    [j \in DOMAIN DlPeriods |->
        [view |-> "daily", label |-> DlPeriods[j], row |-> SourceRow(b[DlPeriods[j]])]]

(* one iteration of print_events' loop over events *)
EventsBody(b, r, t) ==
    [name \in DOMAIN b |->
        IF name \in DlWindows(r.date, t) THEN Inc(b[name], r.event, r.count)
        ELSE b[name]]

RECURSIVE EventsLoop(_, _, _)
EventsLoop(d, os, t) ==
    IF os = <<>> THEN d
    ELSE IF Len(os) = 1 THEN EventsBody(d, os[1], t)
    ELSE LET h == Len(os) \div 2
             left == EventsLoop(d, SubSeq(os, 1, h), t)
         IN  Evaluated(left, EventsLoop(left, SubSeq(os, h + 1, Len(os)), t))

EventRow(d) ==
    [new_free_user |-> Lookup(d, "new_free_user", 0),
     early_adopter_grant |-> Lookup(d, "early_adopter_grant", 0),
     license_activated |-> Lookup(d, "license_activated", 0)]

EventsOutput(b) ==
    [j \in DOMAIN DlPeriods |->
        [view |-> "events", label |-> DlPeriods[j], row |-> EventRow(b[DlPeriods[j]])]]

---------------------------------------------------------------------------
(* dl-report.py: print_by_app and print_by_version *)

ByAppBody_no_total(apps, r) ==
    Put(apps, r.app, Inc(Lookup(apps, r.app, EmptyDict), r.source, r.count))

(* one iteration of print_by_app's loop *)
ByAppBody(apps, r) ==
    Put(apps, r.app,
        Inc(Inc(Lookup(apps, r.app, EmptyDict), r.source, r.count), "total", r.count))

RECURSIVE ByAppLoop(_, _)
ByAppLoop(d, os) ==
    IF os = <<>> THEN d
    ELSE IF Len(os) = 1 THEN ByAppBody(d, os[1])
    ELSE LET h == Len(os) \div 2
             left == ByAppLoop(d, SubSeq(os, 1, h))
         IN  Evaluated(left, ByAppLoop(left, SubSeq(os, h + 1, Len(os))))

ByAppOutput(apps) ==
    LET ks == SortedDesc(apps.keys,
                         [j \in DOMAIN apps.keys |->
                             Lookup(apps.val[apps.keys[j]], "total", 0)])
    IN  [j \in DOMAIN ks |->
            [view |-> "by_app", label |-> ks[j], row |-> SourceRow(apps.val[ks[j]])]]

ZeroVersion == [count |-> 0, source |-> EmptyDict]

(* f"{r['app']} {r['version']}" *)
VersionKey(r) == r.app \o " " \o r.version

(* one iteration of print_by_version's loop *)
ByVersionBody(versions, r) ==
    LET v == Lookup(versions, VersionKey(r), ZeroVersion)
    IN  Put(versions, VersionKey(r),
            [count |-> v.count + r.count,
             source |-> Inc(v.source, r.source, r.count)])

RECURSIVE ByVersionLoop(_, _)
ByVersionLoop(d, os) ==
    IF os = <<>> THEN d
    ELSE IF Len(os) = 1 THEN ByVersionBody(d, os[1])
    ELSE LET h == Len(os) \div 2
             left == ByVersionLoop(d, SubSeq(os, 1, h))
         IN  Evaluated(left, ByVersionLoop(left, SubSeq(os, h + 1, Len(os))))

TopVersions_insertion_order(versions) == Take(versions.keys, TOP_N)

(* sorted(versions, key=count, reverse=True)[:20] *)
TopVersions(versions) ==
    Take(SortedDesc(versions.keys,
                    [j \in DOMAIN versions.keys |->
                        versions.val[versions.keys[j]].count]), TOP_N)

ByVersionOutput(versions) ==
    LET ks == TopVersions(versions)
    IN  [j \in DOMAIN ks |->
            [view |-> "by_version", label |-> ks[j],
             row |-> [total |-> versions.val[ks[j]].count,
                      sparkle |-> Lookup(versions.val[ks[j]].source, "sparkle", 0),
                      website |-> Lookup(versions.val[ks[j]].source, "website", 0)]]]

---------------------------------------------------------------------------
(* Values of the variables a run does not use *)

NoRecord == [id |-> <<0, 0>>]
NoArgs == [script |-> "none"]
NoData == [rows |-> <<>>, events |-> <<>>]

Message(text) == [view |-> "message", label |-> text, row |-> <<>>]
Header(text) == [view |-> "header", label |-> text, row |-> <<>>]

---------------------------------------------------------------------------
(* ls-sales.py: fetch_orders.  server[p] is the body the API returns for
   page p; past the last page it returns an empty page. *)

EmptyPage == [bad |-> FALSE, records |-> <<>>]

Response(p) == IF p \in DOMAIN server THEN server[p] ELSE EmptyPage

(* json.loads raises JSONDecodeError: the error is printed and the loop is
   left by "break", so the function returns the pages read so far *)
FetchBad ==
    /\ pc = "fetch_orders"
    /\ Response(page).bad
    /\ requested' = Append(requested, page)
    /\ stderr' = Append(stderr, [error |-> "Bad API response on page", page |-> page])
    /\ pc' = "main"
    /\ UNCHANGED <<args, now, tz, server, data, page, all_orders, filtered, cur, n,
                   buckets, stdout, exit_code>>

(* a full page: extend all_orders and go on to the next page *)
FetchMore ==
    /\ pc = "fetch_orders"
    /\ ~Response(page).bad
    /\ ~(Len(Response(page).records) < PAGE_SIZE)
    /\ requested' = Append(requested, page)
    /\ all_orders' = all_orders \o Response(page).records
    /\ page' = page + 1
    /\ UNCHANGED <<pc, args, now, tz, server, data, filtered, cur, n, buckets,
                   stdout, stderr, exit_code>>

FetchLast_on_full_page ==
    /\ pc = "fetch_orders"
    /\ ~Response(page).bad
    /\ Len(Response(page).records) <= PAGE_SIZE
    /\ requested' = Append(requested, page)
    /\ all_orders' = all_orders \o Response(page).records
    /\ pc' = "main"
    /\ UNCHANGED <<args, now, tz, server, data, page, filtered, cur, n, buckets,
                   stdout, stderr, exit_code>>

(* a short page: extend all_orders, leave the loop and return *)
FetchLast ==
    /\ pc = "fetch_orders"
    /\ ~Response(page).bad
    /\ Len(Response(page).records) < PAGE_SIZE
    /\ requested' = Append(requested, page)
    /\ all_orders' = all_orders \o Response(page).records
    /\ pc' = "main"
    /\ UNCHANGED <<args, now, tz, server, data, page, filtered, cur, n, buckets,
                   stdout, stderr, exit_code>>

---------------------------------------------------------------------------
(* ls-sales.py: main, after fetch_orders has returned *)

(* a run of print_*: its lines, and a traceback and exit status 1 if it died *)
Finish(lines, crashed) ==
    /\ stdout' = stdout \o lines
    /\ stderr' = IF crashed THEN Append(stderr, [error |-> "TypeError", page |-> 0])
                 ELSE stderr
    /\ exit_code' = IF crashed THEN 1 ELSE 0
    /\ pc' = "exit"

SalesHeader(a, os) ==
    Header(IF a.month THEN "month" ELSE IF DaysTruthy(a) THEN "last N days" ELSE "all time")

(* --daily: all orders go to print_daily, which does its own bucketing *)
MainDaily ==
    /\ pc = "main"
    /\ args.daily
    /\ IF all_orders = <<>>
       THEN Finish(<<Message("No orders found.")>>, FALSE)
       ELSE Finish(<<Header("LemonSqueezy Sales")>>
                   \o SalesDailyOutput(SalesDailyLoop(SalesBuckets0, all_orders, now, tz),
                                       all_orders).lines, FALSE)
    /\ UNCHANGED <<args, now, tz, server, data, page, requested, all_orders, filtered,
                   cur, n, buckets>>

(* the report the flags select, on a non-empty list of filtered orders *)
SalesReport(a, os) ==
    IF a.json THEN JsonOutput(JsonLoop(<<>>, os))
    ELSE LET head == <<SalesHeader(a, os)>>
             fees == FeesOutput(FeesLoop(ZeroFees, os))
             products == ProductsOutput(ProductsLoop(EmptyDict, os))
             variants == VariantsOutput(VariantsLoop(EmptyDict, os))
             monthly == MonthlyOutput(MonthlyLoop(EmptyDict, os))
         IN  IF a.fees THEN [lines |-> head \o fees.lines, crashed |-> FALSE]
             ELSE IF a.products
                  THEN [lines |-> head \o products.lines, crashed |-> products.crashed]
             ELSE IF a.product_variants
                  THEN [lines |-> head \o variants.lines, crashed |-> FALSE]
             ELSE [lines |-> head \o monthly.lines \o fees.lines \o products.lines,
                   crashed |-> products.crashed]

(* every other mode: filter, then "no data" or the selected report *)
MainReport ==
    /\ pc = "main"
    /\ ~args.daily
    /\ filtered' = filter_orders(all_orders, args, now)
    /\ IF filtered' = <<>>
       THEN Finish(<<Message("No orders found for the selected period.")>>, FALSE)
       ELSE LET report == SalesReport(args, filtered')
            IN  Finish(report.lines, report.crashed)
    /\ UNCHANGED <<args, now, tz, server, data, page, requested, all_orders, cur, n,
                   buckets>>

---------------------------------------------------------------------------
(* dl-report.py: fetch_stats and main.  For this script server is the one
   body the stats API returns: [bad, rows, events]. *)

(* json.loads raises JSONDecodeError: message on the error stream, exit 1 *)
DlFetchBad ==
    /\ pc = "dl_fetch_stats"
    /\ server.bad
    /\ stderr' = Append(stderr, [error |-> "Bad API response", page |-> 0])
    /\ exit_code' = 1
    /\ pc' = "exit"
    /\ UNCHANGED <<args, now, tz, server, data, page, requested, all_orders, filtered,
                   cur, n, buckets, stdout>>

DlFetchOk ==
    /\ pc = "dl_fetch_stats"
    /\ ~server.bad
    /\ data' = [rows |-> server.rows, events |-> server.events]
    /\ pc' = "dl_main"
    /\ UNCHANGED <<args, now, tz, server, page, requested, all_orders, filtered,
                   cur, n, buckets, stdout, stderr, exit_code>>

DlEventsLines(events) == EventsOutput(EventsLoop(DlBuckets0, events, now))

(* --json: the response is dumped as it came *)
DlMainJson ==
    /\ pc = "dl_main"
    /\ args.json
    /\ Finish(<<[view |-> "json", label |-> "json", row |-> data]>>, FALSE)
    /\ UNCHANGED <<args, now, tz, server, data, page, requested, all_orders, filtered,
                   cur, n, buckets>>

(* --events: the event table alone *)
DlMainEvents ==
    /\ pc = "dl_main"
    /\ ~args.json
    /\ args.events
    /\ IF data.events = <<>>
       THEN Finish(<<Message("No event data found for the selected period.")>>, FALSE)
       ELSE Finish(<<Header("Event Analytics")>> \o DlEventsLines(data.events), FALSE)
    /\ UNCHANGED <<args, now, tz, server, data, page, requested, all_orders, filtered,
                   cur, n, buckets>>

(* the download report: --daily, or by app and by version *)
DlMainRows ==
    /\ pc = "dl_main"
    /\ ~args.json
    /\ ~args.events
    /\ IF data.rows = <<>>
       THEN Finish(<<Message("No download data found for the selected period.")>>, FALSE)
       ELSE Finish(<<Header("Download Analytics")>>
                   \o (IF args.daily
                       THEN DlDailyOutput(DlDailyLoop(DlBuckets0, data.rows, now))
                       ELSE ByAppOutput(ByAppLoop(EmptyDict, data.rows))
                            \o ByVersionOutput(ByVersionLoop(EmptyDict, data.rows)))
                   \o (IF data.events # <<>> THEN DlEventsLines(data.events) ELSE <<>>),
                   FALSE)
    /\ UNCHANGED <<args, now, tz, server, data, page, requested, all_orders, filtered,
                   cur, n, buckets>>

---------------------------------------------------------------------------
(* Inputs of whole runs *)

SaneItem == [json |-> "object", product_name |-> "SaneBar", variant_name |-> "Pro"]

(* the instants of day Today: "now" of a run *)
NowChoices == {Today * TicksPerDay + k : k \in 0..(TicksPerDay - 1)}

(* what the records of one page look like; the records of a page differ in
   their id only *)
PageTemplates ==
    { [id |-> <<0, 0>>, status |-> "paid", created |-> Today * TicksPerDay,
       subtotal_usd |-> 10000, tax_usd |-> 0, currency |-> "USD",
       first_order_item |-> SaneItem],
      [id |-> <<0, 0>>, status |-> "paid", created |-> (Today - 3) * TicksPerDay,
       subtotal_usd |-> 1999, tax_usd |-> 100, currency |-> "EUR",
       first_order_item |-> SaneItem],
      [id |-> <<0, 0>>, status |-> "refunded", created |-> Today * TicksPerDay,
       subtotal_usd |-> 10000, tax_usd |-> 0, currency |-> "USD",
       first_order_item |-> SaneItem] }

PageOf(p, k, tmpl) ==
    [bad |-> FALSE, records |-> [j \in 1..k |-> [tmpl EXCEPT !.id = <<p, j>>]]]

(* bodies the orders API may return for page p: not JSON, or a page of
   0, 1, PAGE_SIZE - 1 or PAGE_SIZE records *)
PageChoices(p) ==
    {[bad |-> TRUE, records |-> <<>>], EmptyPage}
    \cup {PageOf(p, k, tmpl) : k \in {1, PAGE_SIZE - 1, PAGE_SIZE},
                               tmpl \in PageTemplates}

Servers ==
    UNION { {s \in [1..len -> UNION {PageChoices(p) : p \in 1..len}] :
                \A p \in 1..len : s[p] \in PageChoices(p)} : len \in 0..MaxPages }

SalesModes == {"full", "daily", "fees", "products", "product_variants", "json"}

SalesArgs ==
    { [script |-> "ls-sales", month |-> m, days_given |-> g, days |-> d,
       daily |-> (mode = "daily"), fees |-> (mode = "fees"),
       products |-> (mode = "products"),
       product_variants |-> (mode = "product_variants"), json |-> (mode = "json")] :
      m \in BOOLEAN, g \in BOOLEAN, d \in 0..MaxDaysArg, mode \in SalesModes }

DlArgs ==
    { [script |-> "dl-report", daily |-> d, json |-> j, events |-> e,
       days |-> DL_DEFAULT_DAYS] : d \in BOOLEAN, j \in BOOLEAN, e \in BOOLEAN }

DlRow(date, app, version, source, count) ==
    [date |-> date, app |-> app, version |-> version, source |-> source,
     count |-> count]

DlEvent(date, event, count) == [date |-> date, event |-> event, count |-> count]

SeqsUpTo(S, k) == UNION {[1..len -> S] : len \in 0..k}

StatsBodies ==
    {[bad |-> TRUE, rows |-> <<>>, events |-> <<>>]}
    \cup { [bad |-> FALSE, rows |-> rs, events |-> es] :
           rs \in SeqsUpTo({DlRow(Today, "sanebar", "1.0", "sparkle", 2),
                            DlRow(Today - 1, "saneclip", "2.1", "website", 1)},
                           MaxRecords),
           es \in SeqsUpTo({DlEvent(Today, "new_free_user", 1),
                            DlEvent(Today - 2, "license_activated", 3)}, MaxRecords) }

Idle ==
    /\ tz = 0
    /\ data = NoData
    /\ page = 1
    /\ requested = <<>>
    /\ all_orders = <<>>
    /\ filtered = <<>>
    /\ cur = NoRecord
    /\ n = 0
    /\ buckets = EmptyDict
    /\ stdout = <<>>
    /\ stderr = <<>>
    /\ exit_code = -1

(* a run of ls-sales.py, from the call of fetch_orders *)
InitSales ==
    /\ pc = "fetch_orders"
    /\ args \in {a \in SalesArgs : a.days_given \/ a.days = 0}
    /\ now \in NowChoices
    /\ server \in Servers
    /\ Idle

(* a run of dl-report.py, from the call of fetch_stats *)
InitDl ==
    /\ pc = "dl_fetch_stats"
    /\ args \in DlArgs
    /\ now \in NowChoices
    /\ server \in StatsBodies
    /\ Idle

InitMain == InitSales \/ InitDl

NextSales == FetchBad \/ FetchMore \/ FetchLast \/ MainDaily \/ MainReport

NextDl == DlFetchBad \/ DlFetchOk \/ DlMainJson \/ DlMainEvents \/ DlMainRows

NextMain == NextSales \/ NextDl

(* whole runs of either script *)
SpecMain == InitMain /\ [][NextMain]_vars

---------------------------------------------------------------------------
(* The functions on their own.  A function called on its own runs its loop
   over a list of at most MaxRecords records; the list is revealed one
   record per iteration, so that every prefix of every list is a state. *)

(* one iteration of a view's loop on record o: b is the new dictionary *)
LoopStep(name, o, b) ==
    /\ pc = name
    /\ n < MaxRecords
    /\ cur' = o
    /\ n' = n + 1
    /\ buckets' = b
    /\ UNCHANGED <<pc, args, now, tz, server, data, page, requested, all_orders,
                   filtered, stdout, stderr, exit_code>>

(* the end of the loop: the view prints its table and returns, or dies *)
Return(name, lines, crashed) ==
    /\ pc = name
    /\ stdout' = stdout \o lines
    /\ stderr' = IF crashed THEN Append(stderr, [error |-> "TypeError", page |-> 0])
                 ELSE stderr
    /\ exit_code' = IF crashed THEN 1 ELSE exit_code
    /\ pc' = IF crashed THEN "exit" ELSE "returned"
    /\ UNCHANGED <<args, now, tz, server, data, page, requested, all_orders,
                   filtered, cur, n, buckets>>

Numbered(o, k) == [o EXCEPT !.id = <<0, k>>]

FilterStep(o) ==
    /\ pc = "filter_orders"
    /\ n < MaxRecords
    /\ cur' = Numbered(o, n + 1)
    /\ n' = n + 1
    /\ filtered' = IF Retained(cur', args, now) THEN Append(filtered, cur') ELSE filtered
    /\ UNCHANGED <<pc, args, now, tz, server, data, page, requested, all_orders,
                   buckets, stdout, stderr, exit_code>>

FilterReturn ==
    /\ pc = "filter_orders"
    /\ pc' = "returned"
    /\ UNCHANGED <<args, now, tz, server, data, page, requested, all_orders,
                   filtered, cur, n, buckets, stdout, stderr, exit_code>>

MonthlyStep(o) ==
    LoopStep("print_monthly", Numbered(o, n + 1), MonthlyBody(buckets, Numbered(o, n + 1)))
MonthlyPrint == Return("print_monthly", MonthlyOutput(buckets).lines, FALSE)

ProductsStep(o) ==
    LoopStep("print_products", Numbered(o, n + 1),
             ProductsBody(buckets, Numbered(o, n + 1)))
ProductsPrint ==
    Return("print_products", ProductsOutput(buckets).lines, ProductsOutput(buckets).crashed)

VariantsStep(o) ==
    LoopStep("print_product_variants", Numbered(o, n + 1),
             VariantsBody(buckets, Numbered(o, n + 1)))
VariantsPrint == Return("print_product_variants", VariantsOutput(buckets).lines, FALSE)

(* print_daily's loop; its table and its list of recent orders need the
   whole list and are part of MainDaily *)
SalesDailyStep(o) ==
    LoopStep("print_daily", Numbered(o, n + 1),
             SalesDailyBody(buckets, Numbered(o, n + 1), now, tz))

JsonStep(o) ==
    LoopStep("print_json", Numbered(o, n + 1), JsonBody(buckets, Numbered(o, n + 1)))
JsonPrint == Return("print_json", JsonOutput(buckets).lines, FALSE)

DlDailyStep(r) == LoopStep("dl_print_daily", r, DlDailyBody(buckets, r, now))
DlDailyPrint == Return("dl_print_daily", DlDailyOutput(buckets), FALSE)

EventsStep(r) == LoopStep("dl_print_events", r, EventsBody(buckets, r, now))
EventsPrint == Return("dl_print_events", EventsOutput(buckets), FALSE)

ByAppStep(r) == LoopStep("dl_print_by_app", r, ByAppBody(buckets, r))
ByAppPrint == Return("dl_print_by_app", ByAppOutput(buckets), FALSE)

ByVersionStep(r) == LoopStep("dl_print_by_version", r, ByVersionBody(buckets, r))
ByVersionPrint == Return("dl_print_by_version", ByVersionOutput(buckets), FALSE)

(* the dictionary a view starts from *)
Buckets0(name) ==
    IF name = "print_daily" THEN SalesBuckets0
    ELSE IF name \in {"dl_print_daily", "dl_print_events"} THEN DlBuckets0
    ELSE IF name = "print_json" THEN <<>>
    ELSE EmptyDict

(* a call of view "name" on its own *)
InitView(name) ==
    /\ pc = name
    /\ args = NoArgs
    /\ server = <<>>
    /\ data = NoData
    /\ page = 1
    /\ requested = <<>>
    /\ all_orders = <<>>
    /\ filtered = <<>>
    /\ cur = NoRecord
    /\ n = 0
    /\ buckets = Buckets0(name)
    /\ stdout = <<>>
    /\ stderr = <<>>
    /\ exit_code = -1

TzChoices == {-1, 0, 1}

Order(status, created, cents, currency, item) ==
    [id |-> <<0, 0>>, status |-> status, created |-> created, subtotal_usd |-> cents,
     tax_usd |-> 0, currency |-> currency, first_order_item |-> item]

---------------------------------------------------------------------------
(* filter_orders on its own: runs on the last day of a month and on the
   first day of the next, orders from MaxDaysArg + 1 days before to the
   day after *)

FilterNows ==
    {d * TicksPerDay + k : d \in {Today - 1, Today}, k \in 0..(TicksPerDay - 1)}

FilterInstants ==
    ((Today - 2 - MaxDaysArg) * TicksPerDay)..(LastDay * TicksPerDay + TicksPerDay - 1)

FilterOrders ==
    {Order(st, c, 10000, "USD", SaneItem) :
        st \in {"paid", "refunded"}, c \in FilterInstants}

FilterArgs ==
    {a \in SalesArgs : ~a.daily /\ ~a.fees /\ ~a.products /\ ~a.product_variants
                       /\ ~a.json /\ (a.days_given \/ a.days = 0)}

InitFilter ==
    /\ pc = "filter_orders"
    /\ args \in FilterArgs
    /\ now \in FilterNows
    /\ tz = 0
    /\ server = <<>>
    /\ data = NoData
    /\ page = 1
    /\ requested = <<>>
    /\ all_orders = <<>>
    /\ filtered = <<>>
    /\ cur = NoRecord
    /\ n = 0
    /\ buckets = EmptyDict
    /\ stdout = <<>>
    /\ stderr = <<>>
    /\ exit_code = -1

NextFilter == (\E o \in FilterOrders : FilterStep(o)) \/ FilterReturn

SpecFilter == InitFilter /\ [][NextFilter]_vars

(* the last iteration appended its order to filtered *)
Kept == filtered # <<>> /\ filtered[Len(filtered)] = cur

InFilterLoop == pc = "filter_orders" /\ n > 0

(* C5: for every N supplied with the days flag (month flag not set),
   filter_orders retains a paid order created exactly N days before now and
   excludes a paid order created N + 1 days before now. *)
C5_RollingN ==
    (InFilterLoop /\ args.days_given /\ ~args.month /\ cur.status = "paid") =>
        /\ cur.created = now - args.days * Day => Kept
        /\ cur.created = now - (args.days + 1) * Day => ~Kept

(* the first instant of the calendar month "now" lies in: day Today is the
   first day of a month that follows a month of 31 days *)
FirstInstantOfMonth ==
    IF now >= Today * TicksPerDay THEN Today * TicksPerDay
    ELSE (Today - 31) * TicksPerDay

(* C6: with the month flag set, whether or not days=N is given, the cutoff
   is the first instant of the current calendar month (UTC): a paid order
   is retained if and only if it was created at or after that instant, so
   the last instant of the previous month is excluded and the first instant
   of the month included; an order that is not paid is never returned. *)
C6_CalendarMonth ==
    /\ \A j \in DOMAIN filtered : filtered[j].status = "paid"
    /\ (InFilterLoop /\ args.month) =>
          (Kept <=> (cur.status = "paid" /\ cur.created >= FirstInstantOfMonth))

C6_Witness ==
    /\ InFilterLoop
    /\ args.month /\ args.days_given /\ args.days = MaxDaysArg
    /\ n = 2
    /\ Len(filtered) = 1
    /\ filtered[1].created = FirstInstantOfMonth
    /\ cur.status = "paid"
    /\ cur.created = FirstInstantOfMonth - 1

---------------------------------------------------------------------------
(* The windowed views on their own: print_daily of ls-sales.py, print_daily
   and print_events of dl-report.py.  The run starts on day Today; records
   are dated from SALES_WEEK_DAYS + 1 days before to the instant of the run;
   the caller's zone is behind, at or ahead of UTC. *)

WindowedViews == {"print_daily", "dl_print_daily", "dl_print_events"}

WindowOrders ==
    {Order(st, c, 10000, "USD", SaneItem) : st \in {"paid", "refunded"}, c \in 0..now}

WindowRows ==
    {DlRow(d, "sanebar", "1.0", src, c) :
        d \in 0..today(now), src \in {"sparkle", "website"}, c \in {1, 2}}

WindowEvents ==
    {DlEvent(d, ev, 1) :
        d \in 0..today(now), ev \in {"new_free_user", "license_activated"}}

InitWindows ==
    \E name \in WindowedViews :
        /\ InitView(name)
        /\ now \in NowChoices
        /\ tz \in IF name = "print_daily" THEN TzChoices ELSE {0}

NextWindows ==
    \/ \E o \in WindowOrders : SalesDailyStep(o)
    \/ \E r \in WindowRows : DlDailyStep(r)
    \/ \E e \in WindowEvents : EventsStep(e)
    \/ DlDailyPrint
    \/ EventsPrint

SpecWindows == InitWindows /\ [][NextWindows]_vars

(* the calendar day of an instant in the caller's zone *)
LocalDay(t) == (t + tz) \div TicksPerDay

(* this step added count c under key k to window w of a dl-report view *)
Counted(w, k, c) == Lookup(buckets'[w], k, 0) = Lookup(buckets[w], k, 0) + c

(* this step added the paid order cur' to window w of the orders view *)
SaleCounted(w) ==
    /\ buckets'[w].orders = buckets[w].orders + 1
    /\ buckets'[w].revenue = buckets[w].revenue + Dollars(cur'.subtotal_usd)
    /\ buckets'[w].fees > buckets[w].fees

(* the three windows a record of the given age (0: today, 1: yesterday)
   must be counted in *)
WindowsOfAge(age, last) ==
    {IF age = 0 THEN "Today" ELSE "Yesterday", "This Week", last}

NonExclusiveStep ==
    n' = n + 1 =>
      \A age \in {0, 1} :
        /\ (pc = "dl_print_daily" /\ cur'.date = today(now) - age) =>
              \A w \in WindowsOfAge(age, "Window") :
                  Counted(w, cur'.source, cur'.count) /\ Counted(w, "total", cur'.count)
        /\ (pc = "dl_print_events" /\ cur'.date = today(now) - age) =>
              \A w \in WindowsOfAge(age, "Window") : Counted(w, cur'.event, cur'.count)
        /\ (pc = "print_daily" /\ cur'.status = "paid"
              /\ LocalDay(cur'.created) = LocalDay(now) - age) =>
              \A w \in WindowsOfAge(age, "All Time") : SaleCounted(w)

(* C3: in every windowed view a record dated today is added to Today, to
   This Week and to the Rolling-N / All Time bucket at once, and a record
   dated yesterday to Yesterday, This Week and Rolling-N / All Time (in the
   orders view the records that count are the paid orders). *)
C3_NonExclusive == [][NonExclusiveStep]_vars

(* a paid order of the caller's today that is of another UTC day, counted *)
C3_Witness ==
    /\ pc = "print_daily"
    /\ n > 0
    /\ cur.status = "paid"
    /\ LocalDay(cur.created) = LocalDay(now)
    /\ DateOf(cur.created) # DateOf(now)
    /\ buckets["Today"].orders = n
    /\ buckets["This Week"].orders = n

(* the 7 most recent calendar days, today included *)
SevenDays(d) == {d - j : j \in 0..6}

ThisWeekStep ==
    n' = n + 1 =>
        /\ pc = "dl_print_daily" =>
              (cur'.date \in SevenDays(today(now))
                  <=> Counted("This Week", "total", cur'.count))
        /\ pc = "dl_print_events" =>
              (cur'.date \in SevenDays(today(now))
                  <=> Counted("This Week", cur'.event, cur'.count))
        /\ (pc = "print_daily" /\ cur'.status = "paid") =>
              (LocalDay(cur'.created) \in SevenDays(LocalDay(now))
                  <=> SaleCounted("This Week"))

(* C4: in both report types a record is counted in This Week if and only
   if its calendar day is one of today, today-1, ..., today-6 (UTC days for
   download and event records, the caller's local days for orders). *)
C4_ThisWeek == [][ThisWeekStep]_vars

(* this step changed the named metric of window w *)
Touched(w, k) == Lookup(buckets'[w], k, 0) # Lookup(buckets[w], k, 0)

SaleTouched(w) == buckets'[w].orders # buckets[w].orders

(* Today + Yesterday <= This Week <= last, for a metric read by "at" *)
Contained(at(_), last) ==
    /\ at("Today") + at("Yesterday") <= at("This Week")
    /\ at("This Week") <= at(last)

ContainedNow ==
    /\ pc \in {"dl_print_daily", "dl_print_events"} =>
          \A k \in {"total", "sparkle", "website", "new_free_user", "license_activated"} :
              LET at(w) == Lookup(buckets[w], k, 0) IN Contained(at, "Window")
    /\ pc = "print_daily" =>
          /\ LET at(w) == buckets[w].orders IN Contained(at, "All Time")
          /\ LET at(w) == buckets[w].revenue IN Contained(at, "All Time")
          /\ LET at(w) == buckets[w].fees IN Contained(at, "All Time")

ContainedStep ==
    n' = n + 1 =>
        /\ pc = "dl_print_daily" =>
              /\ ~(Touched("Today", "total") /\ Touched("Yesterday", "total"))
              /\ \A w \in {"Today", "Yesterday", "This Week"} :
                    Touched(w, "total") => Touched("Window", "total")
        /\ pc = "dl_print_events" =>
              /\ ~(Touched("Today", cur'.event) /\ Touched("Yesterday", cur'.event))
              /\ \A w \in {"Today", "Yesterday", "This Week"} :
                    Touched(w, cur'.event) => Touched("Window", cur'.event)
        /\ pc = "print_daily" =>
              /\ ~(SaleTouched("Today") /\ SaleTouched("Yesterday"))
              /\ \A w \in {"Today", "Yesterday", "This Week"} :
                    SaleTouched(w) => SaleTouched("All Time")

(* C12: in the windowed views, after any prefix of records with
   non-negative counts or subtotals, every metric has
   Today + Yesterday <= This Week <= Rolling-N / All Time; no record is
   added to both Today and Yesterday, and none is added to Today, Yesterday
   or This Week without being added to the Rolling-N / All Time bucket. *)
C12_Containment == []ContainedNow /\ [][ContainedStep]_vars

(* an order of today and one of yesterday: This Week holds exactly both *)
C12_Witness ==
    /\ pc = "print_daily"
    /\ n = 2
    /\ buckets["Today"].orders = 1
    /\ buckets["Yesterday"].orders = 1
    /\ buckets["This Week"].orders = 2
    /\ buckets["All Time"].orders = 2
    /\ buckets["This Week"].fees = buckets["Today"].fees + buckets["Yesterday"].fees

---------------------------------------------------------------------------
(* The grouping views of dl-report.py on their own *)

Sources == {"sparkle", "homebrew", "website", "unknown"}

Counts == {0, 1, 2}

TotalsDailyRows ==
    {DlRow(d, "sanebar", "1.0", src, c) :
        d \in {Today, Today - 1, Today - DL_WEEK_RANGE - 1}, src \in Sources, c \in Counts}

TotalsAppRows ==
    {DlRow(Today, app, "1.0", src, c) :
        app \in {"sanebar", "saneclip"}, src \in Sources, c \in Counts}

TotalsVersionRows ==
    {DlRow(Today, app, v, src, c) :
        app \in {"sanebar", "saneclip"}, v \in {"1.0", "2.1"}, src \in Sources,
        c \in Counts}

InitTotals ==
    \E name \in {"dl_print_daily", "dl_print_by_app", "dl_print_by_version"} :
        /\ InitView(name)
        /\ now \in NowChoices
        /\ tz = 0

NextTotals ==
    \/ \E r \in TotalsDailyRows : DlDailyStep(r)
    \/ \E r \in TotalsAppRows : ByAppStep(r)
    \/ \E r \in TotalsVersionRows : ByVersionStep(r)
    \/ DlDailyPrint
    \/ ByAppPrint
    \/ ByVersionPrint

SpecTotals == InitTotals /\ [][NextTotals]_vars

(* sparkle + homebrew + website + unknown of a per-source dictionary *)
SumOfSources(d) ==
    Lookup(d, "sparkle", 0) + Lookup(d, "homebrew", 0) + Lookup(d, "website", 0)
    + Lookup(d, "unknown", 0)

(* C7: for rows with non-negative counts, after any prefix of the rows, the
   total of every bucket equals the sum of its per-source counts: in each
   window of print_daily, for each app of print_by_app, and count against
   the per-source map for each key of print_by_version. *)
C7_Totals ==
    /\ pc = "dl_print_daily" =>
          \A w \in DOMAIN buckets : Lookup(buckets[w], "total", 0) = SumOfSources(buckets[w])
    /\ pc = "dl_print_by_app" =>
          \A app \in DOMAIN buckets.val :
              Lookup(buckets.val[app], "total", 0) = SumOfSources(buckets.val[app])
    /\ pc = "dl_print_by_version" =>
          \A k \in DOMAIN buckets.val :
              buckets.val[k].count = SumOfSources(buckets.val[k].source)

C7_Witness ==
    /\ pc = "dl_print_by_app"
    /\ n = MaxRecords
    /\ \E app \in DOMAIN buckets.val :
          /\ Lookup(buckets.val[app], "total", 0) = 3
          /\ Lookup(buckets.val[app], "sparkle", 0) = 1
          /\ Lookup(buckets.val[app], "homebrew", 0) = 2

---------------------------------------------------------------------------
(* The views of ls-sales.py that charge a fee per order, on their own *)

FeeViews ==
    {"print_monthly", "print_products", "print_product_variants", "print_daily",
     "print_json"}

FeeOrders ==
    {Order(st, d * TicksPerDay, cents, ccy, SaneItem) :
        st \in {"paid", "refunded"}, d \in {Today - 1, Today},
        cents \in {0, 1999, 10000}, ccy \in {"USD", "EUR", ABSENT}}

InitFees ==
    \E name \in FeeViews :
        /\ InitView(name)
        /\ now \in NowChoices
        /\ tz = 0

NextFees ==
    \/ \E o \in FeeOrders : MonthlyStep(o)
    \/ \E o \in FeeOrders : ProductsStep(o)
    \/ \E o \in FeeOrders : VariantsStep(o)
    \/ \E o \in FeeOrders : SalesDailyStep(o)
    \/ \E o \in FeeOrders : JsonStep(o)
    \/ MonthlyPrint
    \/ ProductsPrint
    \/ VariantsPrint
    \/ JsonPrint

SpecFees == InitFees /\ [][NextFees]_vars

(* the fee of the formula on a subtotal of that many cents, in units:
   5% of a cent is 50 units, $0.50 is 50000 units, 1.5% of a cent 15 units *)
IntlOfFormula(cents, currency) == IF currency # "USD" THEN 15 * cents ELSE 0

FeeOfFormula(cents, currency) == 50 * cents + 50000 + IntlOfFormula(cents, currency)

calc_fee_is_the_formula ==
    /\ \A cents \in {0, 1, 1999, 10000}, ccy \in {"USD", "EUR", "GBP"} :
          calc_fee(Dollars(cents), ccy)
              = <<FeeOfFormula(cents, ccy), IntlOfFormula(cents, ccy)>>
    /\ calc_fee(Dollars(10000), "USD")[1] = 550000
    /\ calc_fee(Dollars(10000), "EUR")[1] = 700000
    /\ calc_fee(Dollars(0), "USD")[1] = 50000

(* the sum of the "fees" metric over the keys of a dictionary *)
FeesOf(d) == SumSeq([j \in DOMAIN d.keys |-> d.val[d.keys[j]].fees])

(* the fee the formula charges for the order the step processes *)
FeeDue == FeeOfFormula(cur'.subtotal_usd,
                       IF cur'.currency = ABSENT THEN "USD" ELSE cur'.currency)

FeeStep ==
    n' = n + 1 =>
        /\ calc_fee_is_the_formula
        /\ pc \in {"print_monthly", "print_products", "print_product_variants"} =>
              FeesOf(buckets') = FeesOf(buckets) + FeeDue
        /\ (pc = "print_daily" /\ cur'.status = "paid") =>
              buckets'["All Time"].fees = buckets["All Time"].fees + FeeDue
        /\ pc = "print_json" => buckets'[Len(buckets')].fee = Round2(FeeDue)

(* C8: calc_fee returns (total_fee, international_component) with
   international_component = 1.5% of the subtotal if the currency is not
   USD and 0 otherwise, and total_fee = 5% of the subtotal + 0.50 +
   international_component; fee(100.00, USD) = 5.50, fee(100.00, EUR) = 7.00,
   fee(0, USD) = 0.50; and the monthly, products, product-variants, daily
   and json views charge each order the fee of this function. *)
C8_Fee == [][FeeStep]_vars

C8_Witness ==
    /\ pc = "print_daily"
    /\ n = 1
    /\ cur.status = "paid"
    /\ cur.subtotal_usd = 10000
    /\ cur.currency = "EUR"
    /\ buckets["All Time"].fees = 700000

---------------------------------------------------------------------------
(* print_products and print_product_variants on their own, on orders whose
   first item, product name or variant name may be missing *)

ItemChoices ==
    {[json |-> j, product_name |-> ABSENT, variant_name |-> ABSENT] :
        j \in {"absent", "null"}}
    \cup {[json |-> "object", product_name |-> pn, variant_name |-> vn] :
            pn \in {ABSENT, NULL, "SaneBar"}, vn \in {ABSENT, NULL, "", "Pro"}}

ProductOrders ==
    {Order("paid", Today * TicksPerDay, cents, "USD", item) :
        cents \in {1000, 2000}, item \in ItemChoices}

InitProducts ==
    \E name \in {"print_products", "print_product_variants"} :
        /\ InitView(name)
        /\ now \in NowChoices
        /\ tz = 0

NextProducts ==
    \/ \E o \in ProductOrders : ProductsStep(o)
    \/ \E o \in ProductOrders : VariantsStep(o)
    \/ ProductsPrint
    \/ VariantsPrint

SpecProducts == InitProducts /\ [][NextProducts]_vars

ItemMissing(o) == o.first_order_item.json # "object"

(* the labels the order must be aggregated under *)
ProductLabel(o) ==
    IF ItemMissing(o) \/ o.first_order_item.product_name \in {ABSENT, NULL}
    THEN "Unknown" ELSE o.first_order_item.product_name

VariantLabel(o) ==
    IF ItemMissing(o) \/ o.first_order_item.variant_name \in {ABSENT, NULL, ""}
    THEN "Default" ELSE o.first_order_item.variant_name

OrdersOf(d) == SumSeq([j \in DOMAIN d.keys |-> d.val[d.keys[j]].orders])

(* C9: in print_products and print_product_variants every order is
   aggregated under exactly one key and none is dropped or causes an error:
   a missing first item or product name gives the product label "Unknown",
   a missing variant name the variant label "Default", and the 'orders'
   metric summed over the keys is the number of orders. *)
C9_SentinelLabels ==
    /\ (pc = "print_products" /\ n > 0) =>
          /\ Has(buckets, ProductLabel(cur))
          /\ OrdersOf(buckets) = n
    /\ (pc = "print_product_variants" /\ n > 0) =>
          /\ Has(buckets, ProductLabel(cur) \o " | " \o VariantLabel(cur))
          /\ OrdersOf(buckets) = n
    /\ pc = "exit" => exit_code = 0

---------------------------------------------------------------------------
(* print_by_version on its own, on lists of rows with up to MaxKeys keys.
   The list is fixed when the call starts; the loop reads it row by row and
   the table may be printed after any prefix, which is the call on that
   prefix. *)

(* the version string of the j-th key: "1.00", "1.01", ... *)
VersionName(j) ==
    LET digit == <<"0", "1", "2", "3", "4", "5", "6", "7", "8", "9">>
    IN  "1." \o digit[((j \div 10) % 10) + 1] \o digit[(j % 10) + 1]

(* the count of the first row of the j-th of k keys *)
PatternCount(pattern, k, j) ==
    IF pattern = "decreasing" THEN k - j + 1
    ELSE IF pattern = "increasing" THEN j
    ELSE IF pattern = "equal" THEN 1
    ELSE (j * 7) % 5

(* k rows with k distinct keys, followed, when "again" is set, by a second
   row from another source for every key *)
TopRows(pattern, k, again) ==
    [j \in 1..(IF again THEN 2 * k ELSE k) |->
        IF j <= k
        THEN DlRow(Today, IF j % 2 = 0 THEN "sanebar" ELSE "saneclip", VersionName(j),
                   "sparkle", PatternCount(pattern, k, j))
        ELSE DlRow(Today, IF (j - k) % 2 = 0 THEN "sanebar" ELSE "saneclip",
                   VersionName(j - k), "website", (j - k) % 3)]

InitTop ==
    /\ pc = "dl_print_by_version"
    /\ args = NoArgs
    /\ now = Today * TicksPerDay
    /\ tz = 0
    /\ server = <<>>
    /\ \E pattern \in {"decreasing", "increasing", "equal", "mixed"},
          k \in 0..MaxKeys, again \in BOOLEAN :
          data = [rows |-> TopRows(pattern, k, again), events |-> <<>>]
    /\ page = 1
    /\ requested = <<>>
    /\ all_orders = <<>>
    /\ filtered = <<>>
    /\ cur = NoRecord
    /\ n = 0
    /\ buckets = EmptyDict
    /\ stdout = <<>>
    /\ stderr = <<>>
    /\ exit_code = -1

(* one iteration of print_by_version's loop, on the next row of the list *)
ByVersionNext ==
    /\ pc = "dl_print_by_version"
    /\ n < Len(data.rows)
    /\ cur' = data.rows[n + 1]
    /\ n' = n + 1
    /\ buckets' = ByVersionBody(buckets, data.rows[n + 1])
    /\ UNCHANGED <<pc, args, now, tz, server, data, page, requested, all_orders,
                   filtered, stdout, stderr, exit_code>>

NextTop == ByVersionNext \/ ByVersionPrint

SpecTop == InitTop /\ [][NextTop]_vars

(* the rows the call was made on, their keys, and the total of a key *)
RowsRead == SubSeq(data.rows, 1, n)

KeysRead == {VersionKey(RowsRead[j]) : j \in 1..n}

TotalRead(key) ==
    SumSeq([j \in 1..n |->
               IF VersionKey(RowsRead[j]) = key THEN RowsRead[j].count ELSE 0])

KeysPrinted == {stdout[j].label : j \in DOMAIN stdout}

(* C11: for every list of rows producing K distinct "app version" keys,
   print_by_version outputs exactly min(K, 20) keys, each with its total, in
   non-increasing order of total; every key left out has a total no greater
   than the total of every key output; and where the totals are pairwise
   distinct the output is strictly descending, so that 25 keys with
   strictly decreasing totals give exactly the 20 highest. *)
C11_Top20 ==
    pc = "returned" =>
        /\ Len(stdout) = (IF Cardinality(KeysRead) < 20 THEN Cardinality(KeysRead) ELSE 20)
        /\ Cardinality(KeysPrinted) = Len(stdout)
        /\ \A j \in DOMAIN stdout :
              /\ stdout[j].label \in KeysRead
              /\ stdout[j].row.total = TotalRead(stdout[j].label)
        /\ \A i, j \in DOMAIN stdout : i < j => stdout[i].row.total >= stdout[j].row.total
        /\ \A key \in KeysRead \ KeysPrinted, j \in DOMAIN stdout :
              TotalRead(key) <= stdout[j].row.total
        /\ (\A k1, k2 \in KeysRead : k1 # k2 => TotalRead(k1) # TotalRead(k2)) =>
              \A i, j \in DOMAIN stdout : i < j => stdout[i].row.total > stdout[j].row.total

(* 25 keys read in increasing order of total: the 20 highest are printed,
   the highest first *)
C11_Witness ==
    /\ pc = "returned"
    /\ n = 25
    /\ Cardinality(KeysRead) = 25
    /\ \A j \in 1..25 : RowsRead[j].count = j
    /\ Len(stdout) = 20
    /\ stdout[1].label = VersionKey(RowsRead[25])
    /\ stdout[1].row.total = 25
    /\ stdout[20].row.total = 6

---------------------------------------------------------------------------
(* fetch_orders on its own, against every server of the model.  The loop is
   the only thing running and every request returns (curl --max-time 15),
   so a step that is possible is taken. *)

InitFetch ==
    /\ pc = "fetch_orders"
    /\ args = NoArgs
    /\ now = Today * TicksPerDay
    /\ server \in Servers
    /\ Idle

NextFetch == FetchBad \/ FetchMore \/ FetchLast

SpecFetch == InitFetch /\ [][NextFetch]_vars /\ WF_vars(NextFetch)

---------------------------------------------------------------------------
(* Claims about whole runs *)

BadResponseSeen ==
    \E j \in DOMAIN stderr :
        stderr[j].error \in {"Bad API response on page", "Bad API response"}

IsTable(line) == line.view \notin {"message", "header"}

NoTable == \A j \in DOMAIN stdout : ~IsTable(stdout[j])

(* C1: whenever a fetch returns a body that is not JSON, the run ends with
   a non-zero exit status and produces no aggregation or report; in the
   orders pipeline the records of the pages fetched before the failure
   reach neither filter_orders nor a print_* view. *)
C1_BadResponseIsFatal ==
    (pc = "exit" /\ BadResponseSeen) =>
        (exit_code # 0 /\ stdout = <<>> /\ filtered = <<>>)

(* the pages requested so far answered with these records, in page order *)
RECURSIVE RecordsOfPages(_)
RecordsOfPages(ps) ==
    IF ps = <<>> THEN <<>>
    ELSE RecordsOfPages(SubSeq(ps, 1, Len(ps) - 1)) \o Response(ps[Len(ps)]).records

ShortPage(p) == ~Response(p).bad /\ Len(Response(p).records) < PAGE_SIZE

FetchInOrder ==
    /\ requested = [j \in 1..Len(requested) |-> j]
    /\ pc = "fetch_orders" => page = Len(requested) + 1
    /\ \A j \in 1..(Len(requested) - 1) : ~ShortPage(j) /\ ~Response(j).bad
    /\ all_orders = RecordsOfPages(requested)
    /\ pc = "main" =>
          /\ requested # <<>>
          /\ ShortPage(Len(requested)) \/ Response(Len(requested)).bad

(* C2: fetch_orders requests pages 1, 2, 3, ... in increasing order, one at
   a time, requests no page after the first page of fewer than 50 records,
   returns the records of the pages it fetched in page order, and returns
   once the server has answered with a short page. *)
C2_FetchOrders == []FetchInOrder /\ <>(pc = "main")

C2_Witness ==
    /\ pc = "main"
    /\ Len(requested) = 2
    /\ ShortPage(2)
    /\ Len(Response(2).records) > 0
    /\ Len(all_orders) > PAGE_SIZE

(* zero records are left for the report of the selected mode *)
NothingToReport ==
    IF args.script = "ls-sales"
    THEN IF args.daily THEN PaidOnly(all_orders) = <<>>
         ELSE filter_orders(all_orders, args, now) = <<>>
    ELSE IF args.events /\ ~args.json THEN data.events = <<>>
         ELSE IF args.json THEN data.rows = <<>> /\ data.events = <<>>
         ELSE data.rows = <<>>

SaysNoData == \E j \in DOMAIN stdout : stdout[j].view = "message"

(* C10: in every report mode of both scripts, when zero records remain
   after filtering the run prints a "no data" message, exits with status 0
   and prints no table. *)
C10_EmptyResult ==
    (pc = "exit" /\ ~BadResponseSeen /\ NothingToReport) =>
        (SaysNoData /\ exit_code = 0 /\ NoTable)

====
